---- MODULE Spec2Model ----
(***************************************************************************)
(* Photo storage of the tanstart application: the IndexedDB gateway        *)
(* (lib/indexeddb: openDB, addPhoto, getAllPhotos, deletePhoto), the       *)
(* server functions of server/photoActions.ts that validate input with     *)
(* Zod before calling the gateway, and the client-only upload component    *)
(* that calls addPhoto directly (specification Spec).                      *)
(*                                                                         *)
(* The two upload components (components/PhotoUpload.tsx with a mutation,  *)
(* routes/poo/index.tsx with the server function) are specification        *)
(* SpecUpload, in which the add call is a request that resolves or         *)
(* rejects; the gallery (components/PhotoGallery.tsx) is specification     *)
(* SpecGallery, in which the delete call is such a request.                *)
(* The demo counter (countStore, getCount, updateCount) is specification   *)
(* SpecCounter.                                                            *)
(*                                                                         *)
(* JavaScript strings are modelled as sequences of one-character strings,  *)
(* so that length checks and the regular expression are computed.          *)
(***************************************************************************)
EXTENDS Integers, Sequences, FiniteSets, TLC

\* ------------------------------------------------------------------ bounds
\* Number of UUIDs crypto.randomUUID() can hand out in one behaviour.
MaxIds == 2
\* Number of uploads an upload component starts in one behaviour.
MaxUploads == 2
\* Number of deletions the gallery confirms in one behaviour.
MaxDeletes == 3
\* Number of times the counter's module is evaluated in one process.
MaxLoads == 2
\* Number of updateCount requests in one behaviour.
MaxUpdates == 3

\* ------------------------------------------------------------------ strings
EmptyStr == <<>>
ImagePrefix == <<"i", "m", "a", "g", "e", "/">>
\* Characters the regular expression's "." does not match.
LineTerminators == {"\n", "\r"}

\* /^image\/.+/ of addPhotoSchema: the literal prefix, then at least one
\* character that is not a line terminator; nothing anchors the end.
MatchesImageType(s) ==
    /\ Len(s) >= Len(ImagePrefix) + 1
    /\ SubSeq(s, 1, Len(ImagePrefix)) = ImagePrefix
    /\ s[Len(ImagePrefix) + 1] \notin LineTerminators

NameA == <<"a", ".", "p", "n", "g">>
NameB == <<"b", ".", "j", "p", "g">>
NameTxt == <<"n", ".", "t", "x", "t">>
TypePng == ImagePrefix \o <<"p", "n", "g">>
TypeJpeg == ImagePrefix \o <<"j", "p", "e", "g">>
TypeText == <<"t", "e", "x", "t", "/", "p", "l", "a", "i", "n">>
TypeBareImage == ImagePrefix
TypeImageNewline == ImagePrefix \o <<"\n">>
DataX == <<"X">>
DataY == <<"Y">>

\* ------------------------------------------------------------------ ids
\* The strings crypto.randomUUID() can return.
Uuid(n) == <<"u", ToString(n)>>
UUIDs == {Uuid(n) : n \in 1..MaxIds}
\* An id string no UUID equals, for callers that make one up.
ForeignId == <<"x">>

\* ------------------------------------------------------------------ constants
DB_NAME == "photoAppDB"
STORE_NAME == "photos"
DB_VERSION == 1
\* globalThis.countStore = 22
InitialCount == 22

\* ------------------------------------------------------------------ inputs
\* What an untrusted caller posts to the add action: the three fields, and
\* possibly an extra "id" key (extraId is the set holding it, empty if absent).
AddInput(n, t, d, x) == [name |-> n, type |-> t, data |-> d, extraId |-> x]

ValidAddInputs ==
    { AddInput(NameA, TypePng, DataX, {}),
      AddInput(NameB, TypeJpeg, DataY, {}),
      AddInput(NameA, TypePng, DataX, {ForeignId}) }

InvalidAddInputs ==
    { AddInput(EmptyStr, TypePng, DataX, {}),
      AddInput(NameA, TypeText, DataX, {}),
      AddInput(NameA, TypeBareImage, DataX, {}),
      AddInput(NameA, TypeImageNewline, DataX, {}),
      AddInput(NameA, TypePng, EmptyStr, {}) }

AddInputs == ValidAddInputs \cup InvalidAddInputs

\* What the delete action is posted.
DeleteInputs == {[id |-> i] : i \in UUIDs \cup {EmptyStr, ForeignId}}

\* Files a user can pick in the upload component, with what FileReader
\* yields for them (result is empty when the reader produced nothing).
\* accept="image/*" is a hint of the file dialog, not a check.
Files ==
    { [name |-> NameA, type |-> TypePng, result |-> DataX],
      [name |-> NameTxt, type |-> TypeText, result |-> DataY],
      [name |-> NameB, type |-> TypeJpeg, result |-> EmptyStr] }

Callers == {"c1", "c2"}

\* ------------------------------------------------------------------ state
VARIABLES
    dbVersion,     \* version of database DB_NAME; 0 while it does not exist
    objectStores,  \* names of its object stores
    store,         \* records of object store STORE_NAME (keyPath 'id')
    generated,     \* UUIDs crypto.randomUUID() has returned
    call,          \* per caller: the call in flight and how far it got
    last,          \* outcome of the call that settled last
    reads,         \* results of the list calls settled since the last add/delete
    returned       \* ids addPhoto resolved with, in order

storeVars == <<dbVersion, objectStores, store, generated, call, last, reads, returned>>

\* An upload component: PhotoUpload of components/PhotoUpload.tsx, which calls
\* addPhoto through a mutation ("client"), or PhotoUpload of
\* routes/poo/index.tsx, which calls addPhotoServerFn ("server").
VARIABLES
    version,       \* which of the two components is mounted ("none": neither)
    selectedFile,  \* useState<File | null>: the set holding the file, or {}
    uploadStatus,  \* useState<{type, message} | null>: likewise a set
    isUploading,   \* useState<boolean> of the server-function component
    mutation,      \* what useMutation reports of the mutation started last
    readers,       \* FileReaders that have not fired load or error yet
    adds,          \* add calls that have not settled yet
    uploads,       \* number of uploads triggerUpload has started
    addCalls,      \* every add call made, in order
    invalidated,   \* uploads whose success invalidated the photo list
    uiLast         \* the handler that ran last and what it was about

uploadVars == <<version, selectedFile, uploadStatus, isUploading, mutation, readers,
                adds, uploads, addCalls, invalidated, uiLast>>

\* The gallery of components/PhotoGallery.tsx (the version that receives
\* photos and router as props) on the route whose loader lists the photos.
VARIABLES
    backend,        \* ids of the photos the server holds
    galleryPhotos,  \* the photos prop: ids the loader returned
    stale,          \* router.invalidate() was called and the loader has not rerun
    photoToDelete,  \* useState<string | null>: the set holding the id, or {}
    deleting,       \* deletePhotoServerFn calls that have not settled yet
    deletes,        \* number of deletions confirmed
    invalidations,  \* the calls of router.invalidate(), by the deletion making them
    consoleErrors,  \* confirmed deletions whose failure went to console.error
    galleryLast     \* the handler that ran last and what it was about

galleryVars == <<backend, galleryPhotos, stale, photoToDelete, deleting, deletes,
                 invalidations, consoleErrors, galleryLast>>

\* The demo counter of routes/demo.start.server-funcs: a global of the server
\* process behind the server functions getCount and updateCount.
VARIABLES
    countStore,    \* globalThis.countStore: the set holding the number, {} if undefined
    loads,         \* number of times the module has been evaluated
    updating,      \* per caller: the updateCount request the server has not handled yet
    requested,     \* the increments of all updateCount requests, in order of arrival
    updates,       \* increments handled and values returned, in order of handling
    counterLast    \* the function that ran last, what it found and what it returned

counterVars == <<countStore, loads, updating, requested, updates, counterLast>>

\* What the photo storage leaves alone.
uiVars == <<uploadVars, galleryVars, counterVars>>

vars == <<storeVars, uploadVars, galleryVars, counterVars>>

\* input is what the caller passed, data what reaches the gateway.
Idle == [op |-> "none", via |-> "none", phase |-> "idle", input |-> <<>>, data |-> <<>>]

InFlight(op, via, input, data) ==
    [op |-> op, via |-> via, phase |-> "opening", input |-> input, data |-> data]

NoOutcome ==
    [op |-> "none", via |-> "none", status |-> "none", fault |-> FALSE,
     input |-> <<>>, id |-> EmptyStr, photos |-> <<>>, error |-> {},
     before |-> {}, handle |-> "none"]

\* fault tells that the browser's storage failed the operation (an error event
\* of the open request or of the store request, an abort at commit), as opposed
\* to the code failing it; before is the collection as the call found it;
\* handle is the state the call leaves its database connection in ("none"
\* when it never got one).
Outcome(op, via, input, status, fault, id, photos, error) ==
    [op |-> op, via |-> via, status |-> status, fault |-> fault,
     input |-> input, id |-> id, photos |-> photos, error |-> error,
     before |-> store, handle |-> "none"]

\* transaction.oncomplete = () => db.close(): the only place a connection is
\* closed, so it is closed when the transaction completes and stays open when
\* the transaction aborts or was never created.
HandleAfter(completed) == IF completed THEN "closed" ELSE "open"

NoUiEvent == [event |-> "none", n |-> 0, file |-> {}, id |-> EmptyStr, error |-> ""]

\* No upload component is mounted.
UploadUnmounted ==
    /\ version = "none"
    /\ selectedFile = {}
    /\ uploadStatus = {}
    /\ isUploading = FALSE
    /\ mutation = [status |-> "idle", n |-> 0]
    /\ readers = {}
    /\ adds = {}
    /\ uploads = 0
    /\ addCalls = <<>>
    /\ invalidated = {}
    /\ uiLast = NoUiEvent

\* No gallery is mounted.
GalleryUnmounted ==
    /\ backend = {}
    /\ galleryPhotos = {}
    /\ stale = FALSE
    /\ photoToDelete = {}
    /\ deleting = {}
    /\ deletes = 0
    /\ invalidations = <<>>
    /\ consoleErrors = {}
    /\ galleryLast = NoUiEvent

NoUpdate == [pending |-> FALSE, increment |-> 0, seen |-> {}]

NoCounterEvent == [op |-> "none", increment |-> 0, before |-> {}, result |-> 0]

\* The server process before the counter's module is evaluated.
CounterUnloaded ==
    /\ countStore = {}
    /\ loads = 0
    /\ updating = [c \in Callers |-> NoUpdate]
    /\ requested = <<>>
    /\ updates = <<>>
    /\ counterLast = NoCounterEvent

\* The database before it is first opened.
StoreUnopened ==
    /\ dbVersion = 0
    /\ objectStores = {}
    /\ store = {}
    /\ generated = {}
    /\ call = [c \in Callers |-> Idle]
    /\ last = NoOutcome
    /\ reads = <<>>
    /\ returned = <<>>

Init == StoreUnopened /\ UploadUnmounted /\ GalleryUnmounted /\ CounterUnloaded

\* ------------------------------------------------------------------ validation
\* addPhotoSchema with the regular expression of the type left out.
addPhotoSchema_TypeUnchecked(input) ==
    LET issues ==
            (IF Len(input.name) >= 1 THEN {} ELSE {"Photo name cannot be empty."})
            \cup (IF Len(input.data) >= 1 THEN {} ELSE {"Photo data cannot be empty."})
    IN  [success |-> issues = {},
         issues |-> issues,
         data |-> AddInput(input.name, input.type, input.data, {})]

\* addPhotoSchema: the issues Zod reports for an input, and on success the
\* parsed value, which keeps the declared keys only (z.object strips the rest).
addPhotoSchema(input) ==
    LET issues ==
            (IF Len(input.name) >= 1 THEN {} ELSE {"Photo name cannot be empty."})
            \cup (IF MatchesImageType(input.type) THEN {} ELSE {"Invalid image type."})
            \cup (IF Len(input.data) >= 1 THEN {} ELSE {"Photo data cannot be empty."})
    IN  [success |-> issues = {},
         issues |-> issues,
         data |-> AddInput(input.name, input.type, input.data, {})]

\* deletePhotoSchema with min(0) for min(1).
deletePhotoSchema_EmptyAllowed(input) ==
    [success |-> TRUE, issues |-> {}, data |-> [id |-> input.id]]

\* deletePhotoSchema: id must be a string of length >= 1.
deletePhotoSchema(input) ==
    LET issues == IF Len(input.id) >= 1 THEN {} ELSE {"Photo ID cannot be empty."}
    IN  [success |-> issues = {}, issues |-> issues, data |-> [id |-> input.id]]

\* ------------------------------------------------------------------ gateway
\* An id source that hands out the same value every time.
randomUUID_Constant(used) == {Uuid(1)}

\* crypto.randomUUID(): the values it can return next. A version-4 UUID is
\* random; as usual it is idealised as never repeating a value it has
\* returned. The values are opaque, so the n-th one drawn is named Uuid(n).
randomUUID(used) == {Uuid(n) : n \in {Cardinality(used) + 1} \cap (1..MaxIds)}

\* A record keyed by what the caller sent (its file name) instead of the
\* generated id.
MakePhoto_KeyedByName(photoData, id) ==
    [id |-> photoData.name, name |-> photoData.name, type |-> photoData.type,
     data |-> photoData.data]

\* const photo = { ...photoData, id }: the fields of photoData, with the key
\* 'id' set to the generated id (the later key wins over one photoData has).
MakePhoto(photoData, id) ==
    [id |-> id, name |-> photoData.name, type |-> photoData.type,
     data |-> photoData.data]

Keys(s) == {p.id : p \in s}

\* store.add(photo) on an object store with keyPath 'id': the request fails
\* with a ConstraintError when a record with that key exists.
AddFailsOnKey(s, photo) == photo.id \in Keys(s)

\* Order of string keys in IndexedDB: by code unit, a prefix first.
Alphabet ==
    <<"\n", "\r", ".", "/", "0", "1", "2", "3", "4", "5", "6", "7", "8", "9",
      "X", "Y", "a", "b", "e", "g", "i", "j", "l", "m", "n", "p", "t", "u", "x">>

CharCode(ch) ==
    IF \E i \in 1..Len(Alphabet) : Alphabet[i] = ch
    THEN CHOOSE i \in 1..Len(Alphabet) : Alphabet[i] = ch
    ELSE 0

RECURSIVE StrLess(_, _)
StrLess(a, b) ==
    IF b = <<>> THEN FALSE
    ELSE IF a = <<>> THEN TRUE
    ELSE IF CharCode(Head(a)) # CharCode(Head(b))
         THEN CharCode(Head(a)) < CharCode(Head(b))
         ELSE StrLess(Tail(a), Tail(b))

\* getAllPhotos: the cursor visits the records in key order and each value is
\* pushed onto the array that the promise resolves with.
RECURSIVE CursorWalk(_, _)
CursorWalk(s, photos) ==
    IF s = {} THEN photos
    ELSE LET first == CHOOSE p \in s : \A q \in s \ {p} : ~StrLess(q.id, p.id)
         IN  CursorWalk(s \ {first}, Append(photos, first))

GetAllPhotos(s) == CursorWalk(s, <<>>)

\* deletePhoto(id) of lib/indexeddb, which the server function imports:
\* deleteById removes the record with that key and is a no-op without one.
deletePhoto(s, id) == {p \in s : p.id # id}

Range(f) == {f[i] : i \in DOMAIN f}

\* ------------------------------------------------------------------ failures
\* The catch blocks of the server functions replace whatever the gateway
\* rejected with by one fixed message; a direct caller of the gateway gets
\* the gateway's own rejection.
ServerMessage(op) ==
    CASE op = "get" -> "Failed to retrieve photos."
      [] op = "add" -> "Failed to add photo."
      [] op = "delete" -> "Failed to delete photo."

GatewayMessage(op, opening) ==
    IF opening THEN "Error opening database: "
    ELSE CASE op = "get" -> "Error retrieving photos: "
           [] op = "add" -> "Error adding photo: "
           [] op = "delete" -> "Error deleting photo: "

Failure(cl, fault) ==
    LET handle == IF cl.phase = "opening" THEN "none" ELSE HandleAfter(FALSE)
    IN  IF cl.via = "server"
        THEN [Outcome(cl.op, cl.via, cl.input, "Failed", fault, EmptyStr, <<>>,
                      {ServerMessage(cl.op)}) EXCEPT !.handle = handle]
        ELSE [Outcome(cl.op, cl.via, cl.input, "Rejected", fault, EmptyStr, <<>>,
                      {GatewayMessage(cl.op, cl.phase = "opening")})
                 EXCEPT !.handle = handle]

\* ------------------------------------------------------------------ calls
AddsInFlight == {c \in Callers : call[c].op = "add"}

\* Every add draws one UUID; calls are accepted while the pool can serve them.
CanAdd == Cardinality(generated) + Cardinality(AddsInFlight) < MaxIds

\* getPhotosServerFn: no input, straight to the gateway.
GetPhotosServerFn(c) ==
    /\ call[c].phase = "idle"
    /\ call' = [call EXCEPT ![c] = InFlight("get", "server", <<>>, <<>>)]
    /\ UNCHANGED <<dbVersion, objectStores, store, generated, last, reads, returned>>
    /\ UNCHANGED uiVars

\* addPhotoServerFn: the schema decides whether fn runs at all.
AddPhotoServerFn(c, input) ==
    /\ call[c].phase = "idle"
    /\ CanAdd
    /\ LET parsed == addPhotoSchema(input)
       IN  IF parsed.success
           THEN /\ call' = [call EXCEPT ![c] = InFlight("add", "server", input, parsed.data)]
                /\ UNCHANGED last
           ELSE /\ last' = Outcome("add", "server", input, "ValidationError", FALSE,
                                   EmptyStr, <<>>, parsed.issues)
                /\ UNCHANGED call
    /\ UNCHANGED <<dbVersion, objectStores, store, generated, reads, returned>>
    /\ UNCHANGED uiVars

\* deletePhotoServerFn: likewise.
DeletePhotoServerFn(c, input) ==
    /\ call[c].phase = "idle"
    /\ LET parsed == deletePhotoSchema(input)
       IN  IF parsed.success
           THEN /\ call' = [call EXCEPT ![c] = InFlight("delete", "server", input, parsed.data)]
                /\ UNCHANGED last
           ELSE /\ last' = Outcome("delete", "server", input, "ValidationError", FALSE,
                                   EmptyStr, <<>>, parsed.issues)
                /\ UNCHANGED call
    /\ UNCHANGED <<dbVersion, objectStores, store, generated, reads, returned>>
    /\ UNCHANGED uiVars

\* The client-only upload component: reader.onload takes the file's data URL,
\* gives up when it is empty, and otherwise hands name, type and data of the
\* file to addPhoto through the mutation, with no check of the type.
PhotoUploadMutate(c, file) ==
    /\ call[c].phase = "idle"
    /\ CanAdd
    /\ LET photoDetailsToUpload == AddInput(file.name, file.type, file.result, {})
       IN  IF Len(file.result) = 0
           THEN /\ last' = Outcome("add", "client", photoDetailsToUpload, "ReadError",
                                   FALSE, EmptyStr, <<>>, {"Failed to read file data."})
                /\ UNCHANGED call
           ELSE /\ call' = [call EXCEPT ![c] = InFlight("add", "client",
                                   photoDetailsToUpload, photoDetailsToUpload)]
                /\ UNCHANGED last
    /\ UNCHANGED <<dbVersion, objectStores, store, generated, reads, returned>>
    /\ UNCHANGED uiVars

\* ------------------------------------------------------------------ openDB
\* onupgradeneeded with the test inverted: the store is never created.
UpgradeStores_Inverted(names) ==
    IF STORE_NAME \notin names THEN names ELSE names \cup {STORE_NAME}

\* onupgradeneeded: create the object store unless the database has it.
UpgradeStores(names) ==
    IF STORE_NAME \in names THEN names ELSE names \cup {STORE_NAME}

\* openDB whose upgrade runs on every open and replaces the object store by a
\* new, empty one.
OpenDBSuccess_Recreating(c) ==
    /\ call[c].phase = "opening"
    /\ objectStores' = {STORE_NAME}
    /\ dbVersion' = DB_VERSION
    /\ store' = {}
    /\ call' = [call EXCEPT ![c].phase = "opened"]
    /\ UNCHANGED <<generated, last, reads, returned>>
    /\ UNCHANGED uiVars

\* indexedDB.open(DB_NAME, 1) succeeds; the upgrade runs first when the
\* database is older than the requested version (or new).
OpenDBSuccess(c) ==
    /\ call[c].phase = "opening"
    /\ IF dbVersion < DB_VERSION
       THEN /\ objectStores' = UpgradeStores(objectStores)
            /\ dbVersion' = DB_VERSION
       ELSE UNCHANGED <<dbVersion, objectStores>>
    /\ call' = [call EXCEPT ![c].phase = "opened"]
    /\ UNCHANGED <<store, generated, last, reads, returned>>
    /\ UNCHANGED uiVars

\* request.onerror: openDB rejects, and so does the operation awaiting it.
OpenDBError(c) ==
    /\ call[c].phase = "opening"
    /\ last' = Failure(call[c], TRUE)
    /\ call' = [call EXCEPT ![c] = Idle]
    /\ UNCHANGED <<dbVersion, objectStores, store, generated, reads, returned>>
    /\ UNCHANGED uiVars

\* db.transaction(STORE_NAME, ...) throws when the database has no such store.
TransactionThrows == STORE_NAME \notin objectStores

\* ------------------------------------------------------------------ transactions
\* addPhoto after openDB resolved: generate the id, build the record, add it
\* in a readwrite transaction. The promise resolves with the id on the
\* request's success event and rejects on its error event; the transaction
\* then completes, or aborts at commit and drops the record.
AddPhotoTxn(c) ==
    /\ call[c].op = "add"
    /\ call[c].phase = "opened"
    /\ \E id \in randomUUID(generated), result \in {"complete", "requestError", "abort"} :
         LET photo == MakePhoto(call[c].data, id)
             rejected == \/ TransactionThrows
                         \/ AddFailsOnKey(store, photo)
                         \/ result = "requestError"
         IN  /\ generated' = generated \cup {id}
             /\ IF rejected
                THEN /\ last' = Failure(call[c], result = "requestError")
                     /\ UNCHANGED <<store, returned>>
                ELSE /\ last' = [Outcome("add", call[c].via, call[c].input, "ok",
                                         result = "abort", id, <<>>, {})
                                    EXCEPT !.handle = HandleAfter(result = "complete")]
                     /\ returned' = Append(returned, id)
                     /\ store' = IF result = "complete" THEN store \cup {photo} ELSE store
    /\ call' = [call EXCEPT ![c] = Idle]
    /\ reads' = <<>>
    /\ UNCHANGED <<dbVersion, objectStores>>
    /\ UNCHANGED uiVars

\* The last two list results since the store was last written to.
Remember(rs, photos) ==
    IF Len(rs) < 2 THEN Append(rs, photos) ELSE <<rs[2], photos>>

\* getAllPhotos whose cursor deletes each record it has read.
GetAllPhotosTxn_Consuming(c) ==
    /\ call[c].op = "get"
    /\ call[c].phase = "opened"
    /\ \E result \in {"complete", "requestError"} :
         IF TransactionThrows \/ result = "requestError"
         THEN /\ last' = Failure(call[c], result = "requestError")
              /\ UNCHANGED <<reads, store>>
         ELSE LET photos == GetAllPhotos(store)
              IN  /\ last' = [Outcome("get", call[c].via, call[c].input, "ok", FALSE,
                                      EmptyStr, photos, {})
                                 EXCEPT !.handle = HandleAfter(TRUE)]
                  /\ reads' = Remember(reads, photos)
                  /\ store' = {}
    /\ call' = [call EXCEPT ![c] = Idle]
    /\ UNCHANGED <<dbVersion, objectStores, generated, returned>>
    /\ UNCHANGED uiVars

\* getAllPhotos after openDB resolved: a readonly transaction whose cursor
\* collects every record; rejects on the request's error event.
GetAllPhotosTxn(c) ==
    /\ call[c].op = "get"
    /\ call[c].phase = "opened"
    /\ \E result \in {"complete", "requestError"} :
         IF TransactionThrows \/ result = "requestError"
         THEN /\ last' = Failure(call[c], result = "requestError")
              /\ UNCHANGED reads
         ELSE LET photos == GetAllPhotos(store)
              IN  /\ last' = [Outcome("get", call[c].via, call[c].input, "ok", FALSE,
                                      EmptyStr, photos, {})
                                 EXCEPT !.handle = HandleAfter(TRUE)]
                  /\ reads' = Remember(reads, photos)
    /\ call' = [call EXCEPT ![c] = Idle]
    /\ UNCHANGED <<dbVersion, objectStores, store, generated, returned>>
    /\ UNCHANGED uiVars

\* fn of deletePhotoServerFn that returns without calling the gateway.
deletePhotoHandler_NoCall(s, validatedData, fault) ==
    [store |-> s, status |-> IF fault THEN "Failed" ELSE "ok"]

\* fn of deletePhotoServerFn that treats a missing record as a failure.
deletePhotoHandler_NotFoundFails(s, validatedData, fault) ==
    IF fault \/ validatedData.id \notin {p.id : p \in s}
    THEN [store |-> s, status |-> "Failed"]
    ELSE [store |-> {p \in s : p.id # validatedData.id}, status |-> "ok"]

\* fn of deletePhotoServerFn that overwrites the record with an empty one
\* under the same key instead of removing it.
deletePhotoHandler_Tombstone(s, validatedData, fault) ==
    IF fault
    THEN [store |-> s, status |-> "Failed"]
    ELSE [store |-> {IF p.id = validatedData.id
                     THEN [p EXCEPT !.data = EmptyStr] ELSE p : p \in s},
          status |-> "ok"]

\* fn of deletePhotoServerFn that clears the whole object store.
deletePhotoHandler_ClearsAll(s, validatedData, fault) ==
    IF fault
    THEN [store |-> s, status |-> "Failed"]
    ELSE [store |-> {}, status |-> "ok"]

\* fn of deletePhotoServerFn: await dbDeletePhoto(validatedData.id) inside
\* try/catch; returns nothing on success, rethrows the fixed message otherwise.
deletePhotoHandler(s, validatedData, fault) ==
    IF fault
    THEN [store |-> s, status |-> "Failed"]
    ELSE [store |-> deletePhoto(s, validatedData.id), status |-> "ok"]

\* The delete through the gateway, which acquires a connection, performs the
\* one operation and releases the connection.
DeletePhotoTxn(c) ==
    /\ call[c].op = "delete"
    /\ call[c].phase = "opened"
    /\ \E result \in {"complete", "requestError"} :
         LET fault == result = "requestError"
             done == deletePhotoHandler(store, call[c].data, TransactionThrows \/ fault)
         IN  /\ store' = done.store
             /\ last' = [IF done.status = "ok"
                         THEN Outcome("delete", call[c].via, call[c].input, "ok", FALSE,
                                      call[c].data.id, <<>>, {})
                         ELSE Failure(call[c], fault)
                           EXCEPT !.handle = "closed"]
    /\ call' = [call EXCEPT ![c] = Idle]
    /\ reads' = <<>>
    /\ UNCHANGED <<dbVersion, objectStores, generated, returned>>
    /\ UNCHANGED uiVars

\* ------------------------------------------------------------------ specification
Next ==
    \/ \E c \in Callers : GetPhotosServerFn(c)
    \/ \E c \in Callers, input \in AddInputs : AddPhotoServerFn(c, input)
    \/ \E c \in Callers, input \in DeleteInputs : DeletePhotoServerFn(c, input)
    \/ \E c \in Callers, file \in Files : PhotoUploadMutate(c, file)
    \/ \E c \in Callers : OpenDBSuccess(c)
    \/ \E c \in Callers : OpenDBError(c)
    \/ \E c \in Callers : AddPhotoTxn(c)
    \/ \E c \in Callers : GetAllPhotosTxn(c)
    \/ \E c \in Callers : DeletePhotoTxn(c)

Spec == Init /\ [][Next]_vars

\* ------------------------------------------------------------------ upload components
\* What an upload component leaves alone.
notUploadVars == <<storeVars, galleryVars, counterVars>>

\* {type, message}: the message is a template (text) with the values put
\* into it.
Status(type, text, name, id, detail) ==
    [type |-> type, text |-> text, name |-> name, id |-> id, detail |-> detail]

SelectFirst == Status("error", "Please select a file first.", EmptyStr, EmptyStr, "")

Uploaded(name, id) ==
    Status("success", "Photo \"${name}\" uploaded successfully! ID: ${id}", name, id, "")

ProcessingError(detail) ==
    Status("error", "Error processing file: ${detail}", EmptyStr, EmptyStr, detail)

ReadingError(detail) ==
    Status("error", "Error reading file: ${detail}", EmptyStr, EmptyStr, detail)

UploadingError(detail) ==
    Status("error", "Error uploading photo: ${detail}", EmptyStr, EmptyStr, detail)

\* error is the text of what a call rejected with, when the handler ran for
\* a rejection.
UiEvent(event, n, file, id) ==
    [event |-> event, n |-> n, file |-> file, id |-> id, error |-> ""]

\* What a user can leave in the file input: one file or none.
FileChoices == {{}} \cup {{f} : f \in Files}

\* reader.error?.message || "Unknown error"
ReaderErrors == {"The file could not be read.", "Unknown error"}

\* What addPhoto rejects with: a string from request.onerror of the add or of
\* the open, or the exception db.transaction threw.
GatewayRejections ==
    { [isError |-> FALSE, text |-> GatewayMessage("add", FALSE)],
      [isError |-> FALSE, text |-> GatewayMessage("add", TRUE)],
      [isError |-> TRUE, text |-> "NotFoundError"] }

\* What addPhotoServerFn rejects with: the validation error when the schema
\* refuses the input, the Error of its catch block otherwise.
ServerRejections(input) ==
    IF addPhotoSchema(input).success
    THEN {[isError |-> TRUE, text |-> ServerMessage("add")]}
    ELSE {[isError |-> TRUE, text |-> "Validation error"]}

\* error.message, which a string does not have.
MessageOf(error) == IF error.isError THEN error.text ELSE "undefined"

\* error instanceof Error ? error.message : String(error)
MessageOrString(error) == error.text

\* photoUploadMutation.isPending: the mutation started last has not settled.
isPending == mutation.status = "pending"

\* disabled={!selectedFile || photoUploadMutation.isPending} of the Button,
\* disabled={!selectedFile || isUploading} in the server-function component.
UploadButtonDisabled ==
    IF version = "server" THEN selectedFile = {} \/ isUploading
    ELSE selectedFile = {} \/ isPending

\* disabled of the file input.
FileInputDisabled == IF version = "server" THEN isUploading ELSE isPending

\* handleFileChange, the same in both components: clear the message and take
\* the first chosen file, or none.
HandleFileChange(files) ==
    /\ version # "none"
    /\ ~FileInputDisabled
    /\ uploadStatus' = {}
    /\ selectedFile' = files
    /\ uiLast' = UiEvent("select", 0, files, EmptyStr)
    /\ UNCHANGED <<version, isUploading, mutation, readers, adds, uploads, addCalls,
                   invalidated>>
    /\ UNCHANGED notUploadVars

\* triggerUpload of the client-only component, run by a click on the enabled
\* Upload button: nothing but a message without a file, nothing at all while
\* the mutation is pending; otherwise start reading the selected file.
TriggerUpload ==
    /\ version = "client"
    /\ ~UploadButtonDisabled
    /\ uploads < MaxUploads
    /\ IF selectedFile = {} \/ isPending
       THEN /\ uploadStatus' = IF selectedFile = {} THEN {SelectFirst} ELSE uploadStatus
            /\ uiLast' = UiEvent("blocked", 0, selectedFile, EmptyStr)
            /\ UNCHANGED <<readers, uploads>>
       ELSE /\ uploadStatus' = {}
            /\ readers' = readers \cup {[n |-> uploads + 1, file |-> f] : f \in selectedFile}
            /\ uploads' = uploads + 1
            /\ uiLast' = UiEvent("start", uploads + 1, selectedFile, EmptyStr)
    /\ UNCHANGED <<version, selectedFile, isUploading, mutation, adds, addCalls,
                   invalidated>>
    /\ UNCHANGED notUploadVars

\* reader.onload of the client-only component: an empty result is an error
\* shown to the user; otherwise the file's name and type (of the file selected
\* when the read started) and the data go to photoUploadMutation.mutate, which
\* calls addPhoto and makes this mutation the one the component observes.
ReaderOnload(r) ==
    /\ version = "client"
    /\ r \in readers
    /\ readers' = readers \ {r}
    /\ LET base64Data == r.file.result
           photoDetailsToUpload == AddInput(r.file.name, r.file.type, base64Data, {})
       IN  IF Len(base64Data) = 0
           THEN /\ uploadStatus' = {ProcessingError("Failed to read file data.")}
                /\ uiLast' = UiEvent("readFailed", r.n, {r.file}, EmptyStr)
                /\ UNCHANGED <<mutation, adds, addCalls>>
           ELSE /\ mutation' = [status |-> "pending", n |-> r.n]
                /\ adds' = adds \cup {[n |-> r.n, file |-> r.file,
                                       input |-> photoDetailsToUpload]}
                /\ addCalls' = Append(addCalls, [n |-> r.n, input |-> photoDetailsToUpload])
                /\ uiLast' = UiEvent("mutate", r.n, {r.file}, EmptyStr)
                /\ UNCHANGED uploadStatus
    /\ UNCHANGED <<version, selectedFile, isUploading, uploads, invalidated>>
    /\ UNCHANGED notUploadVars

\* reader.onerror of the client-only component.
ReaderOnerror(r) ==
    /\ version = "client"
    /\ r \in readers
    /\ readers' = readers \ {r}
    /\ \E detail \in ReaderErrors : uploadStatus' = {ReadingError(detail)}
    /\ uiLast' = UiEvent("readFailed", r.n, {r.file}, EmptyStr)
    /\ UNCHANGED <<version, selectedFile, isUploading, mutation, adds, uploads, addCalls,
                   invalidated>>
    /\ UNCHANGED notUploadVars

\* useMutation: a settled mutation changes what the component observes only
\* if no later mutate() replaced it.
Settled(a, status) ==
    IF mutation.n = a.n THEN [mutation EXCEPT !.status = status] ELSE mutation

\* onSuccess that leaves the selected file in place.
onSuccess_KeepsFile(data, variables) ==
    [invalidate |-> TRUE,
     uploadStatus |-> {Uploaded(variables.name, data)},
     selectedFile |-> selectedFile]

\* onSuccess of the mutation: invalidate the 'photos' query, show the success
\* message with the name sent and the id returned, clear the selected file.
onSuccess(data, variables) ==
    [invalidate |-> TRUE,
     uploadStatus |-> {Uploaded(variables.name, data)},
     selectedFile |-> {}]

\* addPhoto resolved with the id of the new record.
MutationOnSuccess(a) ==
    /\ version = "client"
    /\ a \in adds
    /\ adds' = adds \ {a}
    /\ LET data == Uuid(a.n)
           done == onSuccess(data, a.input)
       IN  /\ invalidated' = IF done.invalidate THEN invalidated \cup {a.n} ELSE invalidated
           /\ uploadStatus' = done.uploadStatus
           /\ selectedFile' = done.selectedFile
           /\ uiLast' = UiEvent("success", a.n, {a.file}, data)
    /\ mutation' = Settled(a, "success")
    /\ UNCHANGED <<version, isUploading, readers, uploads, addCalls>>
    /\ UNCHANGED notUploadVars

\* addPhoto rejected; onError shows the message property of what it rejected
\* with.
MutationOnError(a, error) ==
    /\ version = "client"
    /\ a \in adds
    /\ adds' = adds \ {a}
    /\ uploadStatus' = {UploadingError(MessageOf(error))}
    /\ uiLast' = [UiEvent("failure", a.n, {a.file}, EmptyStr) EXCEPT !.error = error.text]
    /\ mutation' = Settled(a, "error")
    /\ UNCHANGED <<version, selectedFile, isUploading, readers, uploads, addCalls,
                   invalidated>>
    /\ UNCHANGED notUploadVars

\* triggerUpload of the server-function component: as above, with isUploading
\* for the pending test, and isUploading set before the read starts.
RouteTriggerUpload ==
    /\ version = "server"
    /\ ~UploadButtonDisabled
    /\ uploads < MaxUploads
    /\ IF selectedFile = {} \/ isUploading
       THEN /\ uploadStatus' = IF selectedFile = {} THEN {SelectFirst} ELSE uploadStatus
            /\ uiLast' = UiEvent("blocked", 0, selectedFile, EmptyStr)
            /\ UNCHANGED <<isUploading, readers, uploads>>
       ELSE /\ uploadStatus' = {}
            /\ isUploading' = TRUE
            /\ readers' = readers \cup {[n |-> uploads + 1, file |-> f] : f \in selectedFile}
            /\ uploads' = uploads + 1
            /\ uiLast' = UiEvent("start", uploads + 1, selectedFile, EmptyStr)
    /\ UNCHANGED <<version, selectedFile, mutation, adds, addCalls, invalidated>>
    /\ UNCHANGED notUploadVars

\* reader.onload of the server-function component up to the await: an empty
\* result goes to the catch block and to finally; otherwise addPhotoServerFn
\* is called.
RouteReaderOnload(r) ==
    /\ version = "server"
    /\ r \in readers
    /\ readers' = readers \ {r}
    /\ LET base64Data == r.file.result
           photoDetailsToUpload == AddInput(r.file.name, r.file.type, base64Data, {})
       IN  IF Len(base64Data) = 0
           THEN /\ uploadStatus' = {UploadingError("Failed to read file data.")}
                /\ isUploading' = FALSE
                /\ uiLast' = UiEvent("readFailed", r.n, {r.file}, EmptyStr)
                /\ UNCHANGED <<adds, addCalls>>
           ELSE /\ adds' = adds \cup {[n |-> r.n, file |-> r.file,
                                       input |-> photoDetailsToUpload]}
                /\ addCalls' = Append(addCalls, [n |-> r.n, input |-> photoDetailsToUpload])
                /\ uiLast' = UiEvent("mutate", r.n, {r.file}, EmptyStr)
                /\ UNCHANGED <<uploadStatus, isUploading>>
    /\ UNCHANGED <<version, selectedFile, mutation, uploads, invalidated>>
    /\ UNCHANGED notUploadVars

\* reader.onerror that shows the error and leaves isUploading set.
RouteReaderOnerror_StaysUploading(r) ==
    /\ version = "server"
    /\ r \in readers
    /\ readers' = readers \ {r}
    /\ \E detail \in ReaderErrors : uploadStatus' = {ReadingError(detail)}
    /\ uiLast' = UiEvent("readFailed", r.n, {r.file}, EmptyStr)
    /\ UNCHANGED <<version, selectedFile, isUploading, mutation, adds, uploads, addCalls,
                   invalidated>>
    /\ UNCHANGED notUploadVars

\* reader.onerror of the server-function component.
RouteReaderOnerror(r) ==
    /\ version = "server"
    /\ r \in readers
    /\ readers' = readers \ {r}
    /\ \E detail \in ReaderErrors : uploadStatus' = {ReadingError(detail)}
    /\ isUploading' = FALSE
    /\ uiLast' = UiEvent("readFailed", r.n, {r.file}, EmptyStr)
    /\ UNCHANGED <<version, selectedFile, mutation, adds, uploads, addCalls, invalidated>>
    /\ UNCHANGED notUploadVars

\* reader.onload after addPhotoServerFn resolved: router.invalidate(), the
\* success message with the file's name and the new id, the selected file
\* cleared; finally isUploading is reset.
RouteAddResolves(a) ==
    /\ version = "server"
    /\ a \in adds
    /\ addPhotoSchema(a.input).success
    /\ adds' = adds \ {a}
    /\ LET newPhotoId == Uuid(a.n)
       IN  /\ invalidated' = invalidated \cup {a.n}
           /\ uploadStatus' = {Uploaded(a.file.name, newPhotoId)}
           /\ uiLast' = UiEvent("success", a.n, {a.file}, newPhotoId)
    /\ selectedFile' = {}
    /\ isUploading' = FALSE
    /\ UNCHANGED <<version, mutation, readers, uploads, addCalls>>
    /\ UNCHANGED notUploadVars

\* reader.onload after addPhotoServerFn rejected: the catch block shows the
\* error; finally isUploading is reset.
RouteAddRejects(a, error) ==
    /\ version = "server"
    /\ a \in adds
    /\ error \in ServerRejections(a.input)
    /\ adds' = adds \ {a}
    /\ uploadStatus' = {UploadingError(MessageOrString(error))}
    /\ isUploading' = FALSE
    /\ uiLast' = [UiEvent("failure", a.n, {a.file}, EmptyStr) EXCEPT !.error = error.text]
    /\ UNCHANGED <<version, selectedFile, mutation, readers, uploads, addCalls,
                   invalidated>>
    /\ UNCHANGED notUploadVars

\* One of the two components freshly mounted.
InitUpload ==
    /\ StoreUnopened
    /\ GalleryUnmounted
    /\ CounterUnloaded
    /\ version \in {"client", "server"}
    /\ selectedFile = {}
    /\ uploadStatus = {}
    /\ isUploading = FALSE
    /\ mutation = [status |-> "idle", n |-> 0]
    /\ readers = {}
    /\ adds = {}
    /\ uploads = 0
    /\ addCalls = <<>>
    /\ invalidated = {}
    /\ uiLast = NoUiEvent

NextUpload ==
    \/ \E files \in FileChoices : HandleFileChange(files)
    \/ TriggerUpload
    \/ \E r \in readers : ReaderOnload(r)
    \/ \E r \in readers : ReaderOnerror(r)
    \/ \E a \in adds : MutationOnSuccess(a)
    \/ \E a \in adds, error \in GatewayRejections : MutationOnError(a, error)
    \/ RouteTriggerUpload
    \/ \E r \in readers : RouteReaderOnload(r)
    \/ \E r \in readers : RouteReaderOnerror(r)
    \/ \E a \in adds : RouteAddResolves(a)
    \/ \E a \in adds, error \in {[isError |-> TRUE, text |-> t] :
                                    t \in {ServerMessage("add"), "Validation error"}} :
          RouteAddRejects(a, error)

SpecUpload == InitUpload /\ [][NextUpload]_vars

\* A FileReader that was started fires load or error, and a call of the
\* server function is answered or fails: neither stays outstanding for ever.
ReaderSettles ==
    \E r \in readers : RouteReaderOnload(r) \/ RouteReaderOnerror(r)

AddSettles ==
    \E a \in adds :
        \/ RouteAddResolves(a)
        \/ \E error \in ServerRejections(a.input) : RouteAddRejects(a, error)

FairSpecUpload == SpecUpload /\ WF_vars(ReaderSettles) /\ WF_vars(AddSettles)

\* ------------------------------------------------------------------ gallery
\* What the gallery leaves alone.
notGalleryVars == <<storeVars, uploadVars, counterVars>>

\* open={!!photoToDelete} of the AlertDialog, which is rendered only when
\* there are photos (the empty gallery returns before it).
DialogOpen == galleryPhotos # {} /\ photoToDelete # {}

\* The texts of the gallery that do not depend on what happened: the empty
\* state and the confirmation dialog.
RoutineTexts ==
    {"No Photos Yet", "Upload some photos to see them here!",
     "Are you absolutely sure?",
     "This action cannot be undone. This will permanently delete the photo from your local storage."}

\* The texts the gallery renders, besides the cards of the photos: it has no
\* state other than photoToDelete, and no element for a message.
GalleryTexts ==
    IF galleryPhotos = {}
    THEN {"No Photos Yet", "Upload some photos to see them here!"}
    ELSE IF DialogOpen
         THEN {"Are you absolutely sure?",
               "This action cannot be undone. This will permanently delete the photo from your local storage."}
         ELSE {}

\* handleDeleteRequest that calls the delete action at once, with no dialog.
HandleDeleteRequest_DeletesAtOnce(photoId) ==
    /\ photoId \in galleryPhotos
    /\ ~DialogOpen
    /\ deletes < MaxDeletes
    /\ deleting' = deleting \cup {[n |-> deletes + 1, id |-> photoId]}
    /\ deletes' = deletes + 1
    /\ galleryLast' = UiEvent("request", 0, {}, photoId)
    /\ UNCHANGED <<backend, galleryPhotos, stale, photoToDelete, invalidations,
                   consoleErrors>>
    /\ UNCHANGED notGalleryVars

\* handleDeleteRequest, run by a click on the delete button of a photo's
\* card; the open dialog is modal, so the cards take clicks only when it is
\* closed.
HandleDeleteRequest(photoId) ==
    /\ photoId \in galleryPhotos
    /\ ~DialogOpen
    /\ photoToDelete' = {photoId}
    /\ galleryLast' = UiEvent("request", 0, {}, photoId)
    /\ UNCHANGED <<backend, galleryPhotos, stale, deleting, deletes, invalidations,
                   consoleErrors>>
    /\ UNCHANGED notGalleryVars

\* Cancel, or the dialog closing by itself (onOpenChange(false)).
CancelDelete ==
    /\ DialogOpen
    /\ photoToDelete' = {}
    /\ galleryLast' = UiEvent("cancel", 0, {}, EmptyStr)
    /\ UNCHANGED <<backend, galleryPhotos, stale, deleting, deletes, invalidations,
                   consoleErrors>>
    /\ UNCHANGED notGalleryVars

\* handleConfirmDelete up to the await, run by a click on Delete in the
\* dialog: deletePhotoServerFn is called with the id in photoToDelete. The
\* click on an AlertDialogAction also closes the dialog, which reaches
\* onOpenChange(false).
HandleConfirmDelete ==
    /\ DialogOpen
    /\ deletes < MaxDeletes
    /\ IF photoToDelete = {}
       THEN UNCHANGED <<deleting, deletes>>
       ELSE /\ deleting' = deleting \cup {[n |-> deletes + 1, id |-> i] : i \in photoToDelete}
            /\ deletes' = deletes + 1
    /\ photoToDelete' = {}
    /\ galleryLast' = UiEvent("confirm", deletes + 1, {}, CHOOSE i \in photoToDelete : TRUE)
    /\ UNCHANGED <<backend, galleryPhotos, stale, invalidations, consoleErrors>>
    /\ UNCHANGED notGalleryVars

\* handleConfirmDelete after deletePhotoServerFn resolved: the server has
\* removed the photo, router.invalidate() is called, and finally
\* photoToDelete is reset.
DeleteResolves(d) ==
    /\ d \in deleting
    /\ deleting' = deleting \ {d}
    /\ backend' = backend \ {d.id}
    /\ invalidations' = Append(invalidations, d.n)
    /\ stale' = TRUE
    /\ photoToDelete' = {}
    /\ galleryLast' = UiEvent("deleted", d.n, {}, d.id)
    /\ UNCHANGED <<galleryPhotos, deletes, consoleErrors>>
    /\ UNCHANGED notGalleryVars

\* handleConfirmDelete with router.invalidate() moved to the finally block.
DeleteRejects_Invalidating(d) ==
    /\ d \in deleting
    /\ deleting' = deleting \ {d}
    /\ consoleErrors' = consoleErrors \cup {d.n}
    /\ invalidations' = Append(invalidations, d.n)
    /\ stale' = TRUE
    /\ photoToDelete' = {}
    /\ galleryLast' = UiEvent("deleteFailed", d.n, {}, d.id)
    /\ UNCHANGED <<backend, galleryPhotos, deletes>>
    /\ UNCHANGED notGalleryVars

\* handleConfirmDelete after deletePhotoServerFn rejected: the catch block
\* logs the error to the console, and finally photoToDelete is reset.
DeleteRejects(d) ==
    /\ d \in deleting
    /\ deleting' = deleting \ {d}
    /\ consoleErrors' = consoleErrors \cup {d.n}
    /\ photoToDelete' = {}
    /\ galleryLast' = UiEvent("deleteFailed", d.n, {}, d.id)
    /\ UNCHANGED <<backend, galleryPhotos, stale, deletes, invalidations>>
    /\ UNCHANGED notGalleryVars

\* The route's loader runs again after an invalidation and passes the
\* gallery what getPhotosServerFn returns.
LoaderReruns ==
    /\ stale
    /\ galleryPhotos' = backend
    /\ stale' = FALSE
    /\ UNCHANGED <<backend, photoToDelete, deleting, deletes, invalidations,
                   consoleErrors, galleryLast>>
    /\ UNCHANGED notGalleryVars

\* The gallery freshly mounted with what the loader found.
InitGallery ==
    /\ StoreUnopened
    /\ UploadUnmounted
    /\ CounterUnloaded
    /\ backend \in SUBSET UUIDs
    /\ galleryPhotos = backend
    /\ stale = FALSE
    /\ photoToDelete = {}
    /\ deleting = {}
    /\ deletes = 0
    /\ invalidations = <<>>
    /\ consoleErrors = {}
    /\ galleryLast = NoUiEvent

NextGallery ==
    \/ \E photoId \in UUIDs : HandleDeleteRequest(photoId)
    \/ CancelDelete
    \/ HandleConfirmDelete
    \/ \E d \in deleting : DeleteResolves(d)
    \/ \E d \in deleting : DeleteRejects(d)
    \/ LoaderReruns

SpecGallery == InitGallery /\ [][NextGallery]_vars

\* A call of deletePhotoServerFn is answered or fails, and an invalidated
\* route runs its loader: neither stays outstanding for ever.
DeleteSettles == \E d \in deleting : DeleteResolves(d) \/ DeleteRejects(d)

FairSpecGallery == SpecGallery /\ WF_vars(DeleteSettles) /\ WF_vars(LoaderReruns)

\* ------------------------------------------------------------------ demo counter
\* What the counter leaves alone.
notCounterVars == <<storeVars, uploadVars, galleryVars>>

\* What a client can post to updateCount; the validator passes any number.
Increments == {-InitialCount, -1, 1}

\* !globalThis.countStore: true of undefined and of 0.
Falsy(v) == v = {} \/ v = {0}

\* The module's top level: set the global to 22 if it is falsy; the
\* assignment countStore = globalThis.countStore that follows is to the same
\* global (declare global has no run-time effect) and changes nothing.
ModuleInit ==
    /\ loads < MaxLoads
    /\ loads' = loads + 1
    /\ countStore' = IF Falsy(countStore) THEN {InitialCount} ELSE countStore
    /\ counterLast' = [op |-> "init", increment |-> 0, before |-> countStore, result |-> 0]
    /\ UNCHANGED <<updating, requested, updates>>
    /\ UNCHANGED notCounterVars

\* readCount: return countStore.
readCount(value) == value

\* getCount: the handler returns readCount().
GetCount ==
    /\ loads >= 1
    /\ \E value \in countStore :
          counterLast' = [op |-> "read", increment |-> 0, before |-> countStore,
                          result |-> readCount(value)]
    /\ UNCHANGED <<countStore, loads, updating, requested, updates>>
    /\ UNCHANGED notCounterVars

\* An updateCount request reaches the server.
UpdateCountRequest(c, data) ==
    /\ loads >= 1
    /\ ~updating[c].pending
    /\ Len(requested) < MaxUpdates
    /\ updating' = [updating EXCEPT ![c] =
                       [pending |-> TRUE, increment |-> data, seen |-> countStore]]
    /\ requested' = Append(requested, data)
    /\ UNCHANGED <<countStore, loads, updates, counterLast>>
    /\ UNCHANGED notCounterVars

\* incrementCount that returns the value it found.
incrementCount_ReturnsOld(value, increment) ==
    [countStore |-> value + increment, result |-> value]

\* incrementCount: countStore += increment; return countStore. There is no
\* await between the read and the write.
incrementCount(value, increment) ==
    [countStore |-> value + increment, result |-> value + increment]

\* updateCount whose handler adds to the value the counter had when the
\* request arrived.
UpdateCount_Stale(c) ==
    /\ updating[c].pending
    /\ \E value \in updating[c].seen :
          LET done == incrementCount(value, updating[c].increment)
          IN  /\ countStore' = {done.countStore}
              /\ updates' = Append(updates, [increment |-> updating[c].increment,
                                             result |-> done.result])
              /\ counterLast' = [op |-> "increment", increment |-> updating[c].increment,
                                 before |-> countStore, result |-> done.result]
    /\ updating' = [updating EXCEPT ![c] = NoUpdate]
    /\ UNCHANGED <<loads, requested>>
    /\ UNCHANGED notCounterVars

\* updateCount: the validator passes the data on and the handler returns
\* incrementCount(data); the handler runs to its end in one turn of the
\* event loop.
UpdateCount(c) ==
    /\ updating[c].pending
    /\ \E value \in countStore :
          LET done == incrementCount(value, updating[c].increment)
          IN  /\ countStore' = {done.countStore}
              /\ updates' = Append(updates, [increment |-> updating[c].increment,
                                             result |-> done.result])
              /\ counterLast' = [op |-> "increment", increment |-> updating[c].increment,
                                 before |-> countStore, result |-> done.result]
    /\ updating' = [updating EXCEPT ![c] = NoUpdate]
    /\ UNCHANGED <<loads, requested>>
    /\ UNCHANGED notCounterVars

\* The server process started, the module not evaluated yet.
InitCounter ==
    /\ StoreUnopened
    /\ UploadUnmounted
    /\ GalleryUnmounted
    /\ CounterUnloaded

NextCounter ==
    \/ ModuleInit
    \/ GetCount
    \/ \E c \in Callers, data \in Increments : UpdateCountRequest(c, data)
    \/ \E c \in Callers : UpdateCount(c)

SpecCounter == InitCounter /\ [][NextCounter]_vars

\* ------------------------------------------------------------------ claims
\* The record the add action is asked to store under a given id.
Submitted(input, id) ==
    [id |-> id, name |-> input.name, type |-> input.type, data |-> input.data]

\* The positions of a list result that hold a record with the given id.
Holding(photos, id) == {i \in DOMAIN photos : photos[i].id = id}

\* An add input that breaks a rule of section 4.3: name of length 0, type
\* not matching ^image/.+, or data of length 0.
BreaksAddRule(input) ==
    \/ Len(input.name) = 0
    \/ ~MatchesImageType(input.type)
    \/ Len(input.data) = 0

\* C1: whenever the add action resolves for a valid input, the id is
\* non-empty and listing the photos then (nothing settled since) yields
\* exactly one record with that id, carrying the submitted name, type, data.
C1_AddedIsListed ==
    (last.op = "add" /\ last.via = "server" /\ last.status = "ok")
        => /\ Len(last.id) >= 1
           /\ LET photos == GetAllPhotos(store)
              IN  /\ Cardinality(Holding(photos, last.id)) = 1
                  /\ \A i \in Holding(photos, last.id) :
                        photos[i] = Submitted(last.input, last.id)

\* C2: an add input breaking a validation rule ends in a validation error,
\* never gets as far as the gateway, and leaves the collection as it was.
C2_InvalidAddRejected ==
    /\ \A c \in Callers :
          (call[c].op = "add" /\ call[c].via = "server")
              => ~BreaksAddRule(call[c].input)
    /\ (last.op = "add" /\ last.via = "server" /\ BreaksAddRule(last.input))
          => /\ last.status = "ValidationError"
             /\ last.error # {}
             /\ store = last.before
             /\ GetAllPhotos(store) = GetAllPhotos(last.before)

C2_Witness ==
    /\ last.op = "add"
    /\ last.status = "ValidationError"
    /\ ~MatchesImageType(last.input.type)
    /\ store # {}

\* C3: a delete of an id that is in the collection removes that record and
\* no other: listing afterwards does not hold it, holds one record fewer, and
\* holds every other record as it was.
C3_DeleteRemovesExactlyOne ==
    (/\ last.op = "delete"
     /\ last.status = "ok"
     /\ last.input.id \in Keys(last.before))
        => LET photos == GetAllPhotos(store)
               earlier == GetAllPhotos(last.before)
           IN  /\ Holding(photos, last.input.id) = {}
               /\ Len(photos) = Len(earlier) - 1
               /\ Range(photos) = {p \in Range(earlier) : p.id # last.input.id}

C3_Witness ==
    /\ last.op = "delete"
    /\ last.status = "ok"
    /\ last.input.id \in Keys(last.before)
    /\ Cardinality(last.before) = 2
    /\ Cardinality(store) = 1

\* C4: a delete of a non-empty id that is not in the collection succeeds,
\* unless the storage itself fails, and leaves the collection as it was;
\* so does the second of two deletes of the same id.
C4_DeleteMissingIsNoOp ==
    (/\ last.op = "delete"
     /\ Len(last.input.id) >= 1
     /\ last.input.id \notin Keys(last.before)
     /\ ~last.fault)
        => /\ last.status = "ok"
           /\ store = last.before
           /\ GetAllPhotos(store) = GetAllPhotos(last.before)

\* The second delete of an id that was stored, with another record present.
C4_Witness ==
    /\ last.op = "delete"
    /\ last.status = "ok"
    /\ last.input.id \in Range(returned)
    /\ last.input.id \notin Keys(last.before)
    /\ store # {}

\* C5: the delete action rejects the empty id with a validation error,
\* without the gateway being called and without a change to the collection.
C5_EmptyIdRejected ==
    /\ \A c \in Callers : call[c].op = "delete" => Len(call[c].input.id) >= 1
    /\ (last.op = "delete" /\ Len(last.input.id) = 0)
          => /\ last.status = "ValidationError"
             /\ last.error = {"Photo ID cannot be empty."}
             /\ store = last.before

C5_Witness ==
    /\ last.op = "delete"
    /\ last.input.id = EmptyStr
    /\ last.status = "ValidationError"
    /\ store # {}

\* C6: two list calls with no add or delete between them return the same
\* set of records, and a list call leaves the collection as it found it.
C6_ListRepeatable ==
    /\ Len(reads) = 2 => Range(reads[1]) = Range(reads[2])
    /\ last.op = "get" => store = last.before

C6_Witness ==
    /\ Len(reads) = 2
    /\ Len(reads[2]) = 2
    /\ last.op = "get"
    /\ last.status = "ok"

\* C7: on a store that was just created and never added to, listing
\* succeeds with the empty sequence, unless the storage itself fails.
C7_FreshStoreListsEmpty ==
    (last.op = "get" /\ ~last.fault /\ generated = {})
        => /\ last.status = "ok"
           /\ last.photos = <<>>

C7_Witness ==
    /\ last.op = "get"
    /\ last.status = "ok"
    /\ last.photos = <<>>
    /\ generated = {}
    /\ dbVersion = DB_VERSION

\* C8: no two records of the collection share an id, and no two resolved
\* adds returned the same id.
C8_IdsUnique ==
    /\ \A p, q \in store : p.id = q.id => p = q
    /\ \A i, j \in DOMAIN returned : returned[i] = returned[j] => i = j

\* The end-to-end scenario of section 8: a.png and b.jpg added, two ids,
\* both listed, then the first deleted and only the second left.
C8_Witness ==
    /\ Len(returned) = 2
    /\ returned[1] # returned[2]
    /\ last.op = "delete"
    /\ last.status = "ok"
    /\ last.input.id = returned[1]
    /\ last.before = { Submitted(AddInput(NameA, TypePng, DataX, {}), returned[1]),
                       Submitted(AddInput(NameB, TypeJpeg, DataY, {}), returned[2]) }
    /\ store = { Submitted(AddInput(NameB, TypeJpeg, DataY, {}), returned[2]) }

\* C9: every record of the collection has a non-empty name, a type matching
\* ^image/.+ and non-empty data, whichever add path stored it.
C9_StoredRecordsValid ==
    \A p \in store :
        /\ Len(p.name) >= 1
        /\ MatchesImageType(p.type)
        /\ Len(p.data) >= 1

\* C10: the key of every stored record is an id the gateway generated, the
\* one the add resolved with, and never the id the caller put in its input.
C10_IdFromGateway ==
    /\ Keys(store) \subseteq generated
    /\ (last.op = "add" /\ last.status = "ok")
          => /\ last.id \in generated
             /\ last.id \notin last.input.extraId
             /\ Keys(store) \ Keys(last.before) \subseteq {last.id}
             /\ \A p \in store : p.id \notin last.input.extraId

C10_Witness ==
    /\ last.op = "add"
    /\ last.status = "ok"
    /\ last.input.extraId = {ForeignId}
    /\ Keys(store) \ Keys(last.before) = {last.id}

\* C11: a stored record is never changed in place: a record that a settling
\* call found in the collection and that is still there under the same id
\* afterwards is the very same record (id, name, type and data), whichever of
\* add, list and delete the call was.
C11_RecordsImmutable ==
    \A p \in last.before, q \in store : p.id = q.id => p = q

\* A delete removed one record and another, stored before it, is still there.
C11_Witness ==
    /\ last.op = "delete"
    /\ last.status = "ok"
    /\ last.before # store
    /\ \E p \in store : p \in last.before /\ p.id # last.id

\* C12: an insert whose write failed (request error, or no commit) fails, and
\* an insert that resolved with an id left a record with that id in the
\* collection.
C12_FailedWriteFailsInsert ==
    last.op = "add"
        => /\ last.fault => last.status \in {"Failed", "Rejected"}
           /\ last.status = "ok" => last.id \in Keys(store)

\* C14: an action whose storage failed (the open or the operation) fails with
\* its generic message.
C14_StorageFailureIsGeneric ==
    (last.via = "server" /\ last.fault)
        => /\ last.status = "Failed"
           /\ last.error = {ServerMessage(last.op)}

\* C15: after an addPhoto or getAllPhotos call has finished, succeeded or
\* failed, the connection it opened is closed.
C15_HandleReleased ==
    last.op \in {"add", "get"} => last.handle # "open"

\* A call moved from waiting for openDB to holding a connection.
OpenSucceeds ==
    \E c \in Callers : call[c].phase = "opening" /\ call'[c].phase = "opened"

\* C16: every successful openDB leaves the photos collection in existence and
\* every stored record as it was, and once the database is at its version a
\* further openDB changes neither the version nor the set of collections.
C16_OpenIdempotent ==
    [][OpenSucceeds
          => /\ STORE_NAME \in objectStores'
             /\ store' = store
             /\ dbVersion = DB_VERSION
                   => /\ dbVersion' = dbVersion
                      /\ objectStores' = objectStores]_vars

\* A call holds a connection from an openDB that found records stored, so
\* that some earlier openDB had succeeded.
C16_Witness ==
    /\ store # {}
    /\ \E c \in Callers : call[c].phase = "opened"

\* C17: with calls of both callers in flight at once, every settling call
\* still acts on the collection as one step: a record leaves only by a
\* successful delete of its own id, a record enters only as the record of the
\* add that settled, a committed add keeps everything that was there, and a
\* delete keeps everything but the record with its id.
C17_ConcurrentOpsIsolated ==
    /\ \A p \in last.before \ store :
          last.op = "delete" /\ last.status = "ok" /\ p.id = last.id
    /\ \A p \in store \ last.before :
          last.op = "add" /\ last.status = "ok" /\ p = Submitted(last.input, last.id)
    /\ (last.op = "add" /\ last.status = "ok" /\ ~last.fault)
          => store = last.before \cup {Submitted(last.input, last.id)}
    /\ (last.op = "delete" /\ last.status = "ok")
          => store = {p \in last.before : p.id # last.id}

\* An add committed while the other caller's delete of that very id was in
\* flight, next to a record stored earlier.
C17_Witness ==
    /\ last.op = "add"
    /\ last.status = "ok"
    /\ Cardinality(store) = 2
    /\ last.id \in Keys(store)
    /\ \E c \in Callers :
          /\ call[c].op = "delete"
          /\ call[c].phase = "opened"
          /\ call[c].data.id = last.id

\* The uploads that were triggered and have neither resolved nor rejected:
\* their file is being read or their add call is in flight.
UploadsPending == {r.n : r \in readers} \cup {a.n : a \in adds}

\* C18: while an upload is pending a click starts no second one, so at most
\* one upload is pending and at most one add call is in flight, in either
\* component.
C18_OneUploadInFlight ==
    /\ Cardinality(UploadsPending) <= 1
    /\ Cardinality(adds) <= 1

\* C19: the Upload button is disabled exactly when no file is selected or an
\* upload is pending, and the file input is disabled while one is pending.
C19_DisabledIffNoFileOrPending ==
    /\ UploadButtonDisabled <=> (selectedFile = {} \/ UploadsPending # {})
    /\ UploadsPending # {} => FileInputDisabled

\* The add calls made for upload n.
AddCallsOf(n) == {i \in DOMAIN addCalls : addCalls[i].n = n}

\* C20: right after an upload succeeded the photo list is invalidated, the
\* status is the success message with the file's name and the returned id,
\* no file is selected and the Upload button is disabled, and the add was
\* called exactly once for that upload, with the file's name, type and data.
C20_SuccessfulUpload ==
    uiLast.event = "success"
        => /\ uiLast.n \in invalidated
           /\ Len(uiLast.id) >= 1
           /\ selectedFile = {}
           /\ UploadButtonDisabled
           /\ Cardinality(AddCallsOf(uiLast.n)) = 1
           /\ \A f \in uiLast.file :
                /\ uploadStatus = {Uploaded(f.name, uiLast.id)}
                /\ \A i \in AddCallsOf(uiLast.n) :
                     addCalls[i].input = AddInput(f.name, f.type, f.result, {})

\* An upload of the client-only component has just succeeded.
C20_Witness ==
    /\ version = "client"
    /\ uiLast.event = "success"
    /\ uiLast.file # {}

\* C13: a failed action is presented to the user: after a delete confirmed in
\* the gallery has failed, the gallery shows something other than its routine
\* texts.
C13_FailedDeleteReported ==
    galleryLast.event = "deleteFailed" => GalleryTexts \ RoutineTexts # {}

\* C21: right after an upload failed because the add rejected, the status is
\* the error message carrying the text of the failure, the photo list has not
\* been invalidated for that upload, and (where nothing else can touch the
\* selection meanwhile) the file of the upload is still selected.
C21_FailedUpload ==
    uiLast.event = "failure"
        => /\ uploadStatus = {UploadingError(uiLast.error)}
           /\ uiLast.n \notin invalidated
           /\ version = "server" => selectedFile = uiLast.file

\* C26: in the server-function component isUploading is set only while a
\* started upload has its reader or its add call outstanding, and, these
\* settling, an upload that set isUploading is followed by isUploading being
\* false again.
C26_UploadingEnds ==
    /\ [](version = "server" /\ UploadsPending = {} => ~isUploading)
    /\ (version = "server" /\ isUploading) ~> ~isUploading

\* An upload of the server-function component has ended, through the reader
\* or through the add call, and isUploading is false.
C26_Witness ==
    /\ version = "server"
    /\ uiLast.event \in {"success", "failure", "readFailed"}
    /\ uiLast.n >= 1
    /\ ~isUploading

\* The handler named ran in this step.
GalleryRan(event) == galleryLast'.event = event /\ galleryLast' # galleryLast

\* C22: the delete action is called only by confirming in the open dialog; a
\* click on a photo's delete button opens the confirmation and does nothing
\* else, and cancelling closes the dialog with no call of the delete action
\* and no invalidation.
C22_DeleteOnlyAfterConfirm ==
    [][/\ deleting' \ deleting # {} => DialogOpen /\ GalleryRan("confirm")
       /\ GalleryRan("request")
            => /\ DialogOpen'
               /\ photoToDelete' = {galleryLast'.id}
               /\ UNCHANGED <<deleting, deletes, invalidations>>
       /\ GalleryRan("cancel")
            => /\ ~DialogOpen'
               /\ UNCHANGED <<deleting, deletes, invalidations>>]_vars

\* The user has cancelled a confirmation; the delete action was never called.
C22_Witness ==
    /\ galleryLast.event = "cancel"
    /\ deletes = 0
    /\ deleting = {}
    /\ invalidations = <<>>

\* C23: confirming calls the delete action once, with the id of the photo
\* whose delete button was clicked; the router cache is invalidated once when
\* that call resolves and not when it rejects, and at no other time.
C23_ConfirmCallsOnceInvalidatesOnSuccess ==
    [][/\ GalleryRan("confirm")
            => /\ galleryLast.event = "request"
               /\ deleting' = deleting \cup {[n |-> deletes + 1, id |-> galleryLast.id]}
               /\ Cardinality(deleting') = Cardinality(deleting) + 1
       /\ GalleryRan("deleted")
            => invalidations' = Append(invalidations, galleryLast'.n)
       /\ ~GalleryRan("deleted") => invalidations' = invalidations]_vars

\* One confirmed deletion has succeeded and invalidated the cache, another
\* has failed.
C23_Witness ==
    /\ Len(invalidations) = 1
    /\ consoleErrors # {}
    /\ \A i \in DOMAIN invalidations : invalidations[i] \notin consoleErrors

\* C24: the dialog is open exactly while photoToDelete is not null, and every
\* confirmed deletion, succeeding or failing, comes to an end with
\* photoToDelete null.
C24_DialogClosesAfterConfirm ==
    /\ [](DialogOpen <=> photoToDelete # {})
    /\ \A n \in 1..MaxDeletes :
          (\E d \in deleting : d.n = n)
              ~> (photoToDelete = {} /\ ~\E d \in deleting : d.n = n)

\* C27: while a confirmation is open for a photo, a delete call for a
\* different photo that settles leaves photoToDelete, and so the open
\* confirmation, as it is.
C27_OpenConfirmationStays ==
    [][\A d \in deleting :
          (d \notin deleting' /\ photoToDelete # {} /\ d.id \notin photoToDelete)
              => photoToDelete' = photoToDelete]_vars

RECURSIVE SumOf(_)
SumOf(ns) == IF ns = <<>> THEN 0 ELSE Head(ns) + SumOf(Tail(ns))

\* The increments handled so far, in order.
Handled == [i \in DOMAIN updates |-> updates[i].increment]

\* C25: with the module evaluated once, the counter is 22 plus the increments
\* handled so far (22 before any); incrementCount(n) leaves the counter at the
\* value it found plus n and returns that, and readCount returns the value it
\* found and leaves it.
C25_CounterFollowsIncrements ==
    /\ loads = 1 => countStore = {InitialCount + SumOf(Handled)}
    /\ counterLast.op = "increment"
          => /\ countStore = {counterLast.result}
             /\ \A v \in counterLast.before :
                   counterLast.result = v + counterLast.increment
    /\ counterLast.op = "read"
          => /\ countStore = counterLast.before
             /\ countStore = {counterLast.result}

\* A read after two increments, the module evaluated once.
C25_Witness ==
    /\ loads = 1
    /\ Len(updates) >= 2
    /\ counterLast.op = "read"
    /\ counterLast.result # InitialCount

\* C28: an evaluation of the module leaves every value the counter holds,
\* 0 included, as it is, and sets 22 only when the counter was never set.
C28_ReinitKeepsValue ==
    counterLast.op = "init"
        => IF counterLast.before = {} THEN countStore = {InitialCount}
           ELSE countStore = counterLast.before

\* C29: with the module evaluated once and updateCount requests of several
\* callers outstanding at once, the i-th value returned is 22 plus the first
\* i increments in the order the requests were handled, and once no request
\* is outstanding the counter is 22 plus all increments requested.
C29_NoLostUpdate ==
    loads = 1
        => /\ \A i \in DOMAIN updates :
                updates[i].result = InitialCount + SumOf(SubSeq(Handled, 1, i))
           /\ (\A c \in Callers : ~updating[c].pending)
                => countStore = {InitialCount + SumOf(requested)}

\* Two requests were outstanding together and were handled in the other
\* order than they arrived; none is outstanding now.
C29_Witness ==
    /\ loads = 1
    /\ Len(updates) >= 2
    /\ \A c \in Callers : ~updating[c].pending
    /\ Handled # requested

====
